---- MODULE Spec2Model ----
(***************************************************************************)
(* Order / payment / inventory consistency of the owls-backend shop.       *)
(*                                                                         *)
(* The database is the shared state: product stock, carts, Order rows,     *)
(* Payment rows and PaymentRefund rows.  Every HTTP request runs in a      *)
(* request slot (req[r]); between two database statements of one request   *)
(* any other request may run.  A Django model instance is a copy of the    *)
(* row taken when it was loaded, and save() writes every column of that    *)
(* copy back, so a request carries its copies (ord, pay) in its slot.      *)
(* Only OrderService.create_order takes row locks (select_for_update in a  *)
(* transaction); its writes become visible at commit.  The database is one *)
(* with row locks and READ COMMITTED statements (DATABASE_URL).            *)
(*                                                                         *)
(* Product.stock is modelled as an integer: the non-negativity of the      *)
(* column is what the checkout has to establish, it is not assumed.        *)
(***************************************************************************)
EXTENDS Integers, Sequences, FiniteSets, TLC

\* ---- bounds of the model ------------------------------------------------
NumProducts == 2
NumUsers == 2
InitStock == 2
MaxQty == 2
MaxOrders == 2
MaxReqs == 2
MaxLen == 2
MaxRefunds == 2
CountCap == 2
StockCap == 4
UnitPrice == 1
SingleOrder == 1

Products == 1..NumProducts
Users == 1..NumUsers
Reqs == 1..MaxReqs
Qtys == 1..MaxQty

\* Order.PAYMENT_METHOD_CHOICES
PaymentMethods == {"cod", "bank_transfer", "momo", "vnpay", "stripe"}
\* the methods create_order does not send to a gateway
OfflineMethods == {"cod", "bank_transfer"}
\* Order.STATUS_CHOICES
OrderStatuses == {"pending", "confirmed", "processing", "shipping", "delivered", "cancelled"}
\* Payment.STATUS_CHOICES
PaymentStatuses == {"pending", "processing", "completed", "failed", "cancelled", "refunded"}

VARIABLES
    stock,       \* Product.stock, per product
    cart,        \* CartItem.quantity per user and product (0: no line)
    orders,      \* the Order rows, in order of creation (index = order number)
    payments,    \* the Payment rows (index = payment id)
    refunds,     \* the PaymentRefund rows
    locks,       \* product row locks: the request slot holding it, or 0
    req,         \* the request slots
    emails,      \* payment-success notifications sent, per payment
    confirms,    \* order-confirmation notifications sent, per order
    ghnCalls,    \* shipment-creation requests sent to the carrier, per order
    releases,    \* stock releases performed, per order
    refundCalls, \* refund requests sent to a payment provider
    active,      \* Product.is_active, per product
    shipments,   \* Shipment.status of the order's shipment ("none": no row), per order
    vnp,         \* a VNPay parameter set: as signed, as returned, and the verdict on it
    resp         \* the response the last step returned, if it ended a request

vars == <<stock, cart, orders, payments, refunds, locks, req, emails, confirms, ghnCalls, releases, refundCalls,
          active, shipments, vnp, resp>>

\* ---- helpers --------------------------------------------------------------
NoItems == [p \in Products |-> 0]

RECURSIVE SumOver(_, _)
SumOver(f, S) == IF S = {} THEN 0
                 ELSE LET x == CHOOSE y \in S : TRUE IN f[x] + SumOver(f, S \ {x})

\* a ghost counter counts up to CountCap
Bump(c) == IF c < CountCap THEN c + 1 ELSE c

NoOrder == [user |-> 0, items |-> NoItems, status |-> "none", payment_method |-> "none",
            payment_status |-> "none", subtotal |-> 0, shipping_fee |-> 0, discount |-> 0,
            total |-> 0, tracking_code |-> 0, dest |-> FALSE]

NoPayment == [order |-> 0, payment_method |-> "none", amount |-> 0, status |-> "none",
              paid_at |-> 0, transaction_id |-> FALSE]

IdleReq == [pc |-> "idle", handler |-> "none", user |-> 0, items |-> NoItems,
            method |-> "none", dest |-> FALSE, fee |-> 0, oid |-> 0, ord |-> NoOrder,
            pid |-> 0, pay |-> NoPayment, rid |-> 0, amount |-> 0, new |-> "none",
            errors |-> {}, product |-> 0, pstock |-> 0, flag |-> FALSE, field |-> "none",
            mail |-> "none", ghn |-> "none", provider |-> "none"]

\* a request starts in the first slot in which no request is running
Free(r) == req[r].pc = "idle" /\ \A r2 \in 1..(r - 1) : req[r2].pc # "idle"

NoResp == [handler |-> "none", oid |-> 0, pid |-> 0, result |-> "none", errors |-> {},
           new |-> "none", mail |-> "none", ghn |-> "none", provider |-> "none", answer |-> "none"]

\* what the caller is told, for the callbacks of the gateways and of the carrier:
\* "success" is the success redirect or the acknowledgment, "failure" the failure
\* redirect or the error answer.  MoMoReturnView sends a success callback for a
\* payment that is already completed to the failure redirect at the end of get();
\* GHNWebhookView answers success: True whatever it did with the status
Answer(h, res) ==
    CASE res = "settled" -> "success"
      [] res = "already" -> IF h = "momo_return" THEN "failure" ELSE "success"
      [] res \in {"server_error", "invalid_amount"} -> "failure"
      [] h = "ghn_webhook" -> "success"
      [] OTHER -> "none"

\* the response of a request: which handler ran, on what, and the outcome (with the
\* status asked for and what became of its notification and its carrier call)
Response(q, res) ==
    [handler |-> q.handler, oid |-> q.oid, pid |-> q.pid, result |-> res, errors |-> q.errors,
     new |-> q.new, mail |-> q.mail, ghn |-> q.ghn, provider |-> q.provider,
     answer |-> Answer(q.handler, res)]

\* checkouts that hold or wait for product locks
InCheckout == {r \in Reqs : req[r].pc \in {"lock", "gateway"}}

\* the step ends the request in slot r with the response res
Ends(r, q, res) == req' = [req EXCEPT ![r] = IdleReq] /\ resp' = Response(q, res)

\* the step leaves the request in slot r running, as q2
Goes(r, q2) == req' = [req EXCEPT ![r] = q2] /\ resp' = NoResp


\* ---- cart -------------------------------------------------------------------
\* Product.is_in_stock
is_in_stock(p) == stock[p] > 0

\* CartItem.save: the quantity is clamped to the product's stock
CartItemSave(q, p) == IF q > stock[p] THEN stock[p] ELSE q

\* CartService.add_item, called by CartAddView.post
add_item(u, p, quantity) ==
    LET created == cart[u][p] = 0
        \* get_or_create saves a new line with the default quantity 1
        row == IF created THEN CartItemSave(1, p) ELSE cart[u][p]
        new_quantity == IF created THEN quantity ELSE row + quantity
        q == [IdleReq EXCEPT !.handler = "add_item", !.user = u]
    IN
    /\ IF ~active[p]
       THEN /\ UNCHANGED cart
            /\ resp' = Response(q, "not_found")
       ELSE IF ~is_in_stock(p)
       THEN /\ UNCHANGED cart
            /\ resp' = Response(q, "out_of_stock")
       ELSE IF new_quantity > stock[p]
       THEN /\ cart' = [cart EXCEPT ![u][p] = row]
            /\ resp' = Response(q, "over_stock")
       ELSE /\ cart' = [cart EXCEPT ![u][p] = CartItemSave(new_quantity, p)]
            /\ resp' = Response(q, "added")
    /\ UNCHANGED <<stock, orders, payments, refunds, locks, req, emails, confirms, ghnCalls, releases, refundCalls, active, shipments, vnp>>

\* ---- checkout: OrderService.create_order ------------------------------------
\* OrderItem.subtotal summed by Order.calculate_totals
Subtotal(items) == SumOver([p \in Products |-> items[p] * UnitPrice], Products)

\* variant: a stock check that lets every quantity through
StockOkAlways(quantity, available) == TRUE

\* the stock check of one cart line
StockOk(quantity, available) == ~(quantity > available)

\* variant: validation stops at the first line that fails
FirstStockError(items) ==
    LET bad == {p \in Products : items[p] > 0 /\ (~active[p] \/ ~StockOk(items[p], stock[p]))}
    IN {p \in bad : \A p2 \in bad : p <= p2}

\* the lines of the cart that fail validation against the locked product rows (inactive
\* product, or more asked than in stock)
StockErrors(items) ==
    {p \in Products : items[p] > 0 /\ (~active[p] \/ ~StockOk(items[p], stock[p]))}

\* the Order row a checkout creates, after calculate_totals
NewOrder(u, items, method, dest, fee) ==
    [user |-> u, items |-> items, status |-> "pending", payment_method |-> method,
     payment_status |-> "unpaid", subtotal |-> Subtotal(items), shipping_fee |-> fee,
     discount |-> 0, total |-> Subtotal(items) + fee - 0, tracking_code |-> 0, dest |-> dest]

\* variant: the stock of an ordered product goes down by one whatever the quantity
ReserveStockByOne(items) == [p \in Products |-> IF items[p] > 0 THEN stock[p] - 1 ELSE stock[p]]

\* Product.objects.filter(id=...).update(stock=F('stock') - quantity), for every line
ReserveStock(items) == [p \in Products |-> stock[p] - items[p]]

\* variant: every Payment is created for the first order
NewPaymentOfFirst(oid, o) ==
    [order |-> 1, payment_method |-> o.payment_method, amount |-> o.total,
     status |-> "pending", paid_at |-> 0, transaction_id |-> FALSE]

\* the Payment row _process_payment creates
NewPayment(oid, o) ==
    [order |-> oid, payment_method |-> o.payment_method, amount |-> o.total,
     status |-> "pending", paid_at |-> 0, transaction_id |-> FALSE]

\* variant: the product rows are read without select_for_update
CanLockAlways(r, items) == TRUE

\* the row locks select_for_update asks for can be taken
CanLock(r, items) == \A p \in Products : items[p] > 0 => locks[p] \in {0, r}

\* no statement of another transaction can update these product rows now
Unlocked(items) == \A p \in Products : items[p] > 0 => locks[p] = 0

\* create_order up to the read of the cart (the transaction has begun)
CheckoutBegin(r, u, method, dest, fee) ==
    /\ Free(r)
    /\ LET q == [IdleReq EXCEPT !.handler = "checkout", !.user = u, !.items = cart[u],
                                !.method = method, !.dest = dest, !.fee = fee]
       IN IF cart[u] = NoItems THEN Ends(r, q, "empty_cart")
          ELSE Goes(r, [q EXCEPT !.pc = "lock"])
    /\ UNCHANGED <<stock, cart, orders, payments, refunds, locks, emails, confirms, ghnCalls, releases, refundCalls, active, shipments, vnp>>

\* the row locks once the transaction of slot r has ended
Released(r) == [p \in Products |-> IF locks[p] = r THEN 0 ELSE locks[p]]

\* select_for_update while it runs: the statement locks the rows it finds one by one,
\* in the order of the query plan (the query has no ORDER BY), and waits at a row
\* another transaction holds
CheckoutLockRow(r, p) ==
    LET q == req[r] IN
    /\ q.pc = "lock"
    /\ q.items[p] > 0
    /\ locks[p] = 0
    /\ locks' = [locks EXCEPT ![p] = r]
    /\ Goes(r, q)
    /\ UNCHANGED <<stock, cart, orders, payments, refunds, emails, confirms, ghnCalls, releases, refundCalls, active, shipments, vnp>>

\* slot r waits at a row that slot r2 holds
WaitsFor(r, r2) ==
    /\ r2 # r
    /\ req[r].pc = "lock"
    /\ \E p \in Products : req[r].items[p] > 0 /\ locks[p] = r2

\* variant: a database that does not look for lock cycles
InWaitCycleNever(r) == FALSE

\* the transaction of slot r is in a cycle of lock waits
InWaitCycle(r) == \E r2 \in Reqs : WaitsFor(r, r2) /\ WaitsFor(r2, r)

\* the database's deadlock detection ends one transaction of a wait cycle with an
\* error; create_order propagates it and CheckoutView answers 500 "please try again"
DeadlockAbort(r) ==
    LET q == req[r] IN
    /\ InWaitCycle(r)
    /\ locks' = Released(r)
    /\ Ends(r, q, "database_error")
    /\ UNCHANGED <<stock, cart, orders, payments, refunds, emails, confirms, ghnCalls, releases, refundCalls, active, shipments, vnp>>

\* select_for_update, validation, Order and OrderItems, stock update, totals, cart.clear;
\* an offline method commits here, an online method goes on to the gateway with the
\* transaction open and the product rows locked
CheckoutLock(r) ==
    LET q == req[r] IN
    /\ q.pc = "lock"
    /\ CanLock(r, q.items)
    /\ IF StockErrors(q.items) # {}
       THEN /\ Ends(r, [q EXCEPT !.errors = StockErrors(q.items)], "stock_error")
            /\ locks' = Released(r)
            /\ UNCHANGED <<stock, cart, orders>>
       ELSE IF q.method \in OfflineMethods
       THEN /\ orders' = Append(orders, NewOrder(q.user, q.items, q.method, q.dest, q.fee))
            /\ stock' = ReserveStock(q.items)
            /\ cart' = [cart EXCEPT ![q.user] = NoItems]
            /\ Ends(r, [q EXCEPT !.oid = Len(orders) + 1], "created")
            /\ locks' = Released(r)
       ELSE /\ locks' = [p \in Products |-> IF q.items[p] > 0 THEN r ELSE locks[p]]
            /\ Goes(r, [q EXCEPT !.pc = "gateway"])
            /\ UNCHANGED <<stock, cart, orders>>
    /\ UNCHANGED <<payments, refunds, emails, confirms, ghnCalls, releases, refundCalls, active, shipments, vnp>>

\* PaymentService.create_payment_url: what it returns to create_order is the
\* payment_url of the provider's result, None on any failure.  StripeService.
\* create_payment_intent reports success with payment_url None.
PaymentUrl(method, ok) == ok /\ method # "stripe"

\* the status the provider service leaves on the Payment it created a URL for
StatusAfterUrl == "processing"

\* variant: the failed checkout keeps its stock decrement
RollbackStockKept(items) == ReserveStock(items)

\* the stock after a checkout without a payment URL: the decrement, the restoring
\* update(stock=F('stock') + quantity) and then the rollback of both
RollbackStock(items) == stock

\* _process_payment and the end of the transaction: with a payment URL the order,
\* its payment and the reservation commit; without one the code restores the stock,
\* deletes the order and raises, and the transaction rolls back
CheckoutGateway(r, ok) ==
    LET q0 == req[r]
        q == [q0 EXCEPT !.provider = IF ok THEN "ok" ELSE "failed"]
        url == PaymentUrl(q.method, ok)
        o == NewOrder(q.user, q.items, q.method, q.dest, q.fee)
        oid == Len(orders) + 1
    IN
    /\ q.pc = "gateway"
    /\ locks' = Released(r)
    /\ IF url
       THEN /\ orders' = Append(orders, o)
            /\ payments' = Append(payments, [NewPayment(oid, o) EXCEPT !.status = StatusAfterUrl,
                                   !.transaction_id = (q.method = "momo")])
            /\ stock' = ReserveStock(q.items)
            /\ cart' = [cart EXCEPT ![q.user] = NoItems]
            /\ Ends(r, [q EXCEPT !.oid = oid, !.pid = Len(payments) + 1], "created")
       ELSE /\ Ends(r, q, "gateway_error")
            /\ stock' = RollbackStock(q.items)
            /\ UNCHANGED <<cart, orders, payments>>
    /\ UNCHANGED <<refunds, emails, confirms, ghnCalls, releases, refundCalls, active, shipments, vnp>>

\* ---- customer cancellation: OrderCancelView.post, OrderService.cancel_order ----
\* Order.can_cancel
can_cancel(o) == o.status \in {"pending", "confirmed"}

\* Product.objects.filter(id=...).update(stock=F('stock') + quantity), for every order line
ReleaseStock(items) == [p \in Products |-> stock[p] + items[p]]

\* the release loop of an order runs: the product rows must not be locked by a checkout
CanRelease(items) ==
    /\ Unlocked(items)
    /\ \A p \in Products : stock[p] + items[p] <= StockCap

\* get_object_or_404 and the can_cancel test on the loaded copy
CancelLoad(r, o) ==
    /\ Free(r)
    /\ o \in 1..Len(orders)
    /\ LET q == [IdleReq EXCEPT !.handler = "cancel", !.oid = o, !.ord = orders[o]]
       IN IF ~can_cancel(q.ord) THEN Ends(r, q, "rejected")
          ELSE Goes(r, [q EXCEPT !.pc = "cancel_write"])
    /\ UNCHANGED <<stock, cart, orders, payments, refunds, locks, emails, confirms, ghnCalls, releases, refundCalls, active, shipments, vnp>>

\* the atomic block of cancel_order: stock restored, the copy saved as cancelled
CancelWrite(r) ==
    LET q == req[r] IN
    /\ q.pc = "cancel_write"
    /\ CanRelease(q.ord.items)
    /\ stock' = ReleaseStock(q.ord.items)
    /\ releases' = [releases EXCEPT ![q.oid] = Bump(@)]
    /\ orders' = [orders EXCEPT ![q.oid] = [q.ord EXCEPT !.status = "cancelled"]]
    /\ Ends(r, q, "cancelled")
    /\ UNCHANGED <<cart, payments, refunds, locks, emails, confirms, ghnCalls, refundCalls, active, shipments, vnp>>

\* ---- settlement: the success callbacks and Payment.mark_as_completed ----------
\* VNPayReturnView, VNPayVerifyAPIView, VNPayIPNView, MoMoReturnView, MoMoWebhookView,
\* StripeService.handle_webhook (payment_intent.succeeded)
SuccessHandlers == {"vnpay_return", "vnpay_verify", "vnpay_ipn", "momo_return",
                    "momo_webhook", "stripe_succeeded"}

\* the payments a callback of handler h can name: a VNPay callback passes verify_return
\* only with the signature of a URL this shop signed, which names a VNPay payment;
\* the MoMo and Stripe handlers look the payment id up without looking at its method
HandlerAccepts(h, pay) ==
    h \in {"vnpay_return", "vnpay_verify", "vnpay_ipn", "vnpay_return_fail"}
        => pay.payment_method = "vnpay"

\* the handlers that send the payment-success notification after mark_as_completed
SendsEmail(h) == h # "stripe_succeeded"

\* variant: a success callback settles whatever it loaded
NeedsSettleAlways(pay) == TRUE

\* the test that lets a success callback settle the payment it loaded
NeedsSettle(pay) == pay.status # "completed"

\* VNPayService.create_payment_url: vnp_Amount is int(payment.amount) * 100
ScaledAmount(amount) == amount * 100

\* VNPayService.verify_return: the amount is int(vnp_Amount) // 100
VerifiedAmount(vnp_amount) == vnp_amount \div 100

\* the vnp_Amount values a signed VNPay callback may carry
VnpAmounts == {ScaledAmount(a) : a \in 1..(MaxQty * UnitPrice)}

\* the callbacks whose result carries the verified amount
VNPayCallbacks == {"vnpay_return", "vnpay_verify", "vnpay_ipn"}

\* the handlers that compare the verified amount with the payment's before settling:
\* VNPayIPNView only
ChecksAmount(h) == h = "vnpay_ipn"

\* Payment.objects.filter(id=...).first(), the amount test of the IPN and the status
\* test of the view
SettleLoad(r, h, p, vnp_amount) ==
    /\ Free(r)
    /\ h \in SuccessHandlers
    /\ p \in 1..Len(payments)
    /\ HandlerAccepts(h, payments[p])
    /\ LET q == [IdleReq EXCEPT !.handler = h, !.pid = p, !.pay = payments[p],
                                !.oid = payments[p].order,
                                !.amount = IF h \in VNPayCallbacks
                                           THEN VerifiedAmount(vnp_amount) ELSE 0]
       IN IF ChecksAmount(h) /\ q.pay.amount # q.amount THEN Ends(r, q, "invalid_amount")
          ELSE IF ~NeedsSettle(q.pay) THEN Ends(r, q, "already")
          ELSE Goes(r, [q EXCEPT !.pc = "mark", !.pay.transaction_id = TRUE])
    /\ UNCHANGED <<stock, cart, orders, payments, refunds, locks, emails, confirms, ghnCalls, releases, refundCalls, active, shipments, vnp>>

\* mark_as_completed: the Payment copy saved as completed with a fresh paid_at, then
\* the payment's order is read
SettleMark(r) ==
    LET q == req[r] IN
    /\ q.pc = "mark"
    /\ payments' = [payments EXCEPT ![q.pid] =
                       [q.pay EXCEPT !.status = "completed", !.paid_at = Bump(payments[q.pid].paid_at)]]
    /\ Goes(r, [q EXCEPT !.pc = "order_save", !.ord = orders[q.oid]])
    /\ UNCHANGED <<stock, cart, orders, refunds, locks, emails, confirms, ghnCalls, releases, refundCalls, active, shipments, vnp>>

\* the outcome of a notification or of a carrier call, as the request records it
Outcome(ok, good) == IF ok THEN good ELSE "failed"

\* variant: a failure of send_mail leaves EmailService as an exception
EmailRaisesOnFailure(mail_ok) == ~mail_ok

\* EmailService._send_email catches the exception of send_mail and returns False
EmailRaises(mail_ok) == FALSE

\* the handlers that call send_payment_success_email inside try/except
CatchesEmail(h) == h \in {"vnpay_return", "vnpay_verify"}

\* what the handler answers after mark_as_completed and the notification
HandlerResult(h, mail_ok) ==
    IF SendsEmail(h) /\ EmailRaises(mail_ok) /\ ~CatchesEmail(h) THEN "server_error" ELSE "settled"

\* variant: a failed side effect puts the order back to 'pending'
UndoneFailure(ord) == [ord EXCEPT !.status = "pending"]

\* the Order row after the carrier call or the notification of a transition failed:
\* the error is logged and nothing is written
LoggedFailure(ord) == ord

\* what the handler does once mark_as_completed has returned
AfterSettle(r, q, mail_ok) ==
    /\ ~mail_ok => SendsEmail(q.handler)
    /\ Ends(r, [q EXCEPT !.mail = IF SendsEmail(q.handler) THEN Outcome(mail_ok, "sent") ELSE @],
            HandlerResult(q.handler, mail_ok))
    /\ emails' = [emails EXCEPT ![q.pid] = IF SendsEmail(q.handler) /\ mail_ok THEN Bump(@) ELSE @]

\* variant: a settlement confirms the order whatever its status
should_create_ghn_always(ord) == TRUE

\* mark_as_completed: the order is driven to 'confirmed' if the copy is 'pending'
should_create_ghn(ord) == ord.status = "pending"

\* mark_as_completed: the Order copy saved as paid (and confirmed, if the copy was
\* pending); a copy that was pending and has a destination asks the carrier for a shipment
SettleOrder(r, ghn_ok, mail_ok) ==
    LET q == req[r]
        calls_ghn == should_create_ghn(q.ord) /\ q.ord.dest
        copy == [q.ord EXCEPT !.payment_status = "paid",
                              !.status = IF should_create_ghn(q.ord) THEN "confirmed" ELSE @]
        q2 == [q EXCEPT !.ghn = IF calls_ghn THEN Outcome(ghn_ok, "ok") ELSE @]
    IN
    /\ q.pc = "order_save"
    /\ orders' = [orders EXCEPT ![q.oid] = IF calls_ghn /\ ~ghn_ok THEN LoggedFailure(copy) ELSE copy]
    /\ IF calls_ghn
       THEN /\ ghnCalls' = [ghnCalls EXCEPT ![q.oid] = Bump(@)]
            /\ IF ghn_ok
               THEN /\ mail_ok
                    /\ Goes(r, [q2 EXCEPT !.pc = "tracking", !.ord = [copy EXCEPT !.tracking_code = 1]])
                    /\ UNCHANGED emails
               ELSE AfterSettle(r, q2, mail_ok)
       ELSE /\ ~ghn_ok
            /\ UNCHANGED ghnCalls
            /\ AfterSettle(r, q2, mail_ok)
    /\ UNCHANGED <<stock, cart, payments, refunds, locks, confirms, releases, refundCalls, active, shipments, vnp>>

\* mark_as_completed: the Order copy saved again with the carrier's tracking code
SettleTracking(r, mail_ok) ==
    LET q == req[r] IN
    /\ q.pc = "tracking"
    /\ orders' = [orders EXCEPT ![q.oid] = q.ord]
    /\ AfterSettle(r, q, mail_ok)
    /\ UNCHANGED <<stock, cart, payments, refunds, locks, confirms, ghnCalls, releases, refundCalls, active, shipments, vnp>>

\* ---- payment failure: the failure callbacks and Payment.mark_as_failed ---------
\* VNPayReturnView (verification failed), MoMoReturnView, MoMoWebhookView,
\* StripeService.handle_webhook (payment_intent.payment_failed)
\* (the "_badsig" callbacks are VNPay requests whose signature does not verify)
FailureHandlers == {"vnpay_return_fail", "momo_return_fail", "momo_webhook_fail", "stripe_failed",
                    "vnpay_return_badsig", "vnpay_ipn_badsig", "vnpay_verify_badsig"}

\* the handlers whose failure branch looks up the payment the callback names:
\* MoMoService.verify_return gives no payment_id on failure, and VNPayIPNView and
\* VNPayVerifyAPIView answer a failed verification without a lookup
FindsPayment(h) == h \notin {"momo_return_fail", "vnpay_ipn_badsig", "vnpay_verify_badsig"}

\* the test that lets a failure callback call mark_as_failed on the payment it loaded
NeedsFail(h, pay) ==
    h = "stripe_failed" \/ pay.status \notin {"completed", "failed", "cancelled"}

FailLoad(r, h, p) ==
    /\ Free(r)
    /\ h \in FailureHandlers
    /\ p \in 1..Len(payments)
    /\ HandlerAccepts(h, payments[p])
    /\ LET q == [IdleReq EXCEPT !.handler = h, !.pid = p, !.pay = payments[p],
                                !.oid = payments[p].order]
       IN IF ~FindsPayment(h) THEN Ends(r, q, "not_found")
          ELSE IF ~NeedsFail(h, q.pay) THEN Ends(r, q, "no_op")
          ELSE Goes(r, [q EXCEPT !.pc = "fail_mark"])
    /\ UNCHANGED <<stock, cart, orders, payments, refunds, locks, emails, confirms, ghnCalls, releases, refundCalls, active, shipments, vnp>>

\* mark_as_failed: the Payment copy saved as failed, then the payment's order is read
\* and cancelled if the copy read is pending
FailMark(r) ==
    LET q == req[r] IN
    /\ q.pc = "fail_mark"
    /\ payments' = [payments EXCEPT ![q.pid] = [q.pay EXCEPT !.status = "failed"]]
    /\ IF orders[q.oid].status = "pending"
       THEN Goes(r, [q EXCEPT !.pc = "fail_cancel", !.ord = orders[q.oid]])
       ELSE Ends(r, q, "failed")
    /\ UNCHANGED <<stock, cart, orders, refunds, locks, emails, confirms, ghnCalls, releases, refundCalls, active, shipments, vnp>>

\* Order.cancel on the copy read by mark_as_failed
FailCancel(r) ==
    LET q == req[r] IN
    /\ q.pc = "fail_cancel"
    /\ IF can_cancel(q.ord)
       THEN /\ CanRelease(q.ord.items)
            /\ stock' = ReleaseStock(q.ord.items)
            /\ releases' = [releases EXCEPT ![q.oid] = Bump(@)]
            /\ orders' = [orders EXCEPT ![q.oid] = [q.ord EXCEPT !.status = "cancelled"]]
       ELSE UNCHANGED <<stock, releases, orders>>
    /\ Ends(r, q, "failed_cancelled")
    /\ UNCHANGED <<cart, payments, refunds, locks, emails, confirms, ghnCalls, refundCalls, active, shipments, vnp>>

\* ---- refunds: PaymentRefundView.post, PaymentService.process_refund -----------
\* variant: the sum counts every refund the provider has answered, failed ones too
TotalRefundedAnswered(p) ==
    SumOver([i \in 1..Len(refunds) |->
                IF refunds[i].payment = p /\ refunds[i].status # "processing"
                THEN refunds[i].amount ELSE 0], 1..Len(refunds))

\* sum(r.amount for r in payment.refunds.filter(status='completed'))
TotalRefunded(p) ==
    SumOver([i \in 1..Len(refunds) |->
                IF refunds[i].payment = p /\ refunds[i].status = "completed"
                THEN refunds[i].amount ELSE 0], 1..Len(refunds))

\* the amounts an admin may ask to refund
RefundAmounts == 1..(MaxQty * UnitPrice)

\* variant: the amount test forgets the refunds already completed
RefundAmountOkNoSum(p, pay, amount) == ~(amount > pay.amount)

\* the two tests of process_refund on the loaded payment
RefundStatusOk(pay) == pay.status = "completed"
RefundAmountOk(p, pay, amount) == ~(amount > pay.amount - TotalRefunded(p))

\* variant: the payment counts as fully refunded only past its amount
FullyRefundedStrict(total_refunded, pay) == total_refunded > pay.amount

\* the test after a completed refund: the payment is now fully refunded
FullyRefunded(total_refunded, pay) == total_refunded >= pay.amount

\* the provider is called unless the service finds no transaction id to refund
CallsProvider(pay) == pay.payment_method = "stripe" \/ pay.transaction_id

\* Payment.objects.get, the two tests and the creation of the 'processing' refund row
RefundStart(r, p, amount) ==
    /\ Free(r)
    /\ p \in 1..Len(payments)
    /\ LET q == [IdleReq EXCEPT !.handler = "refund", !.pid = p, !.pay = payments[p],
                                !.oid = payments[p].order, !.amount = amount]
       IN IF ~RefundStatusOk(q.pay)
          THEN /\ Ends(r, q, "rejected_status")
               /\ UNCHANGED refunds
          ELSE IF ~RefundAmountOk(p, q.pay, amount)
          THEN /\ Ends(r, q, "rejected_amount")
               /\ UNCHANGED refunds
          ELSE /\ Len(refunds) < MaxRefunds
               /\ refunds' = Append(refunds, [payment |-> p, amount |-> amount, status |-> "processing"])
               /\ Goes(r, [q EXCEPT !.pc = "provider", !.rid = Len(refunds) + 1])
    /\ UNCHANGED <<stock, cart, orders, payments, locks, emails, confirms, ghnCalls, releases, refundCalls, active, shipments, vnp>>

\* the provider call and the save of the refund row; after a success the completed
\* refunds are summed again
RefundProvider(r, ok) ==
    LET q == req[r]
        total_refunded == TotalRefunded(q.pid) + q.amount
    IN
    /\ q.pc = "provider"
    /\ ok => CallsProvider(q.pay)
    /\ refundCalls' = IF CallsProvider(q.pay) THEN Bump(refundCalls) ELSE refundCalls
    /\ IF ok
       THEN /\ refunds' = [refunds EXCEPT ![q.rid].status = "completed"]
            /\ IF FullyRefunded(total_refunded, q.pay)
               THEN Goes(r, [q EXCEPT !.pc = "refund_pay"])
               ELSE Ends(r, q, "refunded")
       ELSE /\ refunds' = [refunds EXCEPT ![q.rid].status = "failed"]
            /\ Ends(r, q, "refund_failed")
    /\ UNCHANGED <<stock, cart, orders, payments, locks, emails, confirms, ghnCalls, releases, active, shipments, vnp>>

\* fully refunded: the Payment copy saved as refunded, then the payment's order is read
RefundPayment(r) ==
    LET q == req[r] IN
    /\ q.pc = "refund_pay"
    /\ payments' = [payments EXCEPT ![q.pid] = [q.pay EXCEPT !.status = "refunded"]]
    /\ Goes(r, [q EXCEPT !.pc = "refund_order", !.ord = orders[q.oid]])
    /\ UNCHANGED <<stock, cart, orders, refunds, locks, emails, confirms, ghnCalls, releases, refundCalls, active, shipments, vnp>>

\* fully refunded: the Order copy saved with payment_status refunded
RefundOrder(r) ==
    LET q == req[r] IN
    /\ q.pc = "refund_order"
    /\ orders' = [orders EXCEPT ![q.oid] = [q.ord EXCEPT !.payment_status = "refunded"]]
    /\ Ends(r, q, "refunded")
    /\ UNCHANGED <<stock, cart, payments, refunds, locks, emails, confirms, ghnCalls, releases, refundCalls, active, shipments, vnp>>

\* ---- admin status update: AdminOrderStatusUpdateView, update_order_status ------
\* variant: a table that lets every status follow every status
valid_transitions_any(status) == OrderStatuses

\* valid_transitions of OrderService.update_order_status
valid_transitions(status) ==
    CASE status = "pending" -> {"confirmed", "cancelled"}
      [] status = "confirmed" -> {"shipping", "delivered", "cancelled"}
      [] status = "processing" -> {"shipping", "delivered"}
      [] status = "shipping" -> {"delivered"}
      [] OTHER -> {}

\* get_object_or_404 and the transition test on the loaded copy
AdminLoad(r, o, new_status) ==
    /\ Free(r)
    /\ o \in 1..Len(orders)
    /\ new_status \in OrderStatuses
    /\ LET q == [IdleReq EXCEPT !.handler = "admin_status", !.oid = o, !.ord = orders[o],
                                !.new = new_status]
       IN IF new_status \notin valid_transitions(q.ord.status)
          THEN Ends(r, q, "invalid_transition")
          ELSE Goes(r, [q EXCEPT !.pc = "admin_save", !.ord.status = new_status])
    /\ UNCHANGED <<stock, cart, orders, payments, refunds, locks, emails, confirms, ghnCalls, releases, refundCalls, active, shipments, vnp>>

\* the copy saved with the new status; entering 'confirmed' sends the confirmation
\* notification and, with a destination, asks the carrier for a shipment
AdminSave(r, ghn_ok, mail_ok) ==
    LET q == req[r]
        confirming == q.new = "confirmed"
        calls_ghn == confirming /\ q.ord.dest
        failed == (confirming /\ ~mail_ok) \/ (calls_ghn /\ ~ghn_ok)
        q2 == [q EXCEPT !.mail = IF confirming THEN Outcome(mail_ok, "sent") ELSE @,
                        !.ghn = IF calls_ghn THEN Outcome(ghn_ok, "ok") ELSE @]
    IN
    /\ q.pc = "admin_save"
    /\ ghn_ok => calls_ghn
    /\ ~mail_ok => confirming
    /\ orders' = [orders EXCEPT ![q.oid] = IF failed THEN LoggedFailure(q.ord) ELSE q.ord]
    /\ confirms' = [confirms EXCEPT ![q.oid] = IF confirming /\ mail_ok THEN Bump(@) ELSE @]
    /\ ghnCalls' = [ghnCalls EXCEPT ![q.oid] = IF calls_ghn THEN Bump(@) ELSE @]
    /\ IF ghn_ok THEN Goes(r, [q2 EXCEPT !.pc = "admin_more", !.ord.tracking_code = 1])
       ELSE IF q.new = "delivered" /\ q.ord.payment_method = "cod"
       THEN Goes(r, [q2 EXCEPT !.pc = "admin_more", !.ord.payment_status = "paid"])
       ELSE Ends(r, q2, "updated")
    /\ UNCHANGED <<stock, cart, payments, refunds, locks, emails, releases, refundCalls, active, shipments, vnp>>

\* the second save of the copy: the tracking code after 'confirmed', or payment_status
\* 'paid' after 'delivered' of a COD order
AdminSaveMore(r) ==
    LET q == req[r] IN
    /\ q.pc = "admin_more"
    /\ orders' = [orders EXCEPT ![q.oid] = q.ord]
    /\ Ends(r, q, "updated")
    /\ UNCHANGED <<stock, cart, payments, refunds, locks, emails, confirms, ghnCalls, releases, refundCalls, active, shipments, vnp>>

\* ---- carrier webhook: GHNWebhookView.post ---------------------------------------
\* GHNWebhookView.GHN_STATUS_MAP ("unknown_status": a status outside the vocabulary)
GHNStatuses == {"ready_to_pick", "picking", "picked", "storing", "transporting", "sorting",
                "delivering", "delivered", "delivery_fail", "waiting_to_return", "return",
                "returned", "cancel", "unknown_status"}

GHN_STATUS_MAP(s) ==
    CASE s = "ready_to_pick" -> "confirmed"
      [] s \in {"picking", "picked", "storing"} -> "processing"
      [] s \in {"transporting", "sorting", "delivering", "delivery_fail",
                "waiting_to_return", "return"} -> "shipping"
      [] s = "delivered" -> "delivered"
      [] s \in {"returned", "cancel"} -> "cancelled"
      [] OTHER -> "none"

\* status_order.index
status_index(s) ==
    CASE s = "pending" -> 0 [] s = "confirmed" -> 1 [] s = "processing" -> 2
      [] s = "shipping" -> 3 [] s = "delivered" -> 4 [] s = "cancelled" -> 5
      [] OTHER -> 0 - 1

\* variant: the webhook applies every status of the vocabulary
WebhookAppliesAlways(old_status, new_status) == TRUE

\* the test of the webhook on the loaded copy
WebhookApplies(old_status, new_status) ==
    status_index(new_status) > status_index(old_status) \/ new_status = "cancelled"

\* the order is looked up and the mapped status compared with the copy's
WebhookLoad(r, o, ghn_status) ==
    /\ Free(r)
    /\ o \in 1..Len(orders)
    /\ ghn_status \in GHNStatuses
    /\ LET new_status == GHN_STATUS_MAP(ghn_status)
           q == [IdleReq EXCEPT !.handler = "ghn_webhook", !.oid = o, !.ord = orders[o],
                                !.new = new_status]
       IN IF new_status = "none" THEN Ends(r, q, "unknown_status")
          ELSE IF ~WebhookApplies(q.ord.status, new_status) THEN Ends(r, q, "not_updated")
          ELSE Goes(r, [q EXCEPT !.pc = "webhook_save", !.ord.status = new_status,
                                 !.ord.payment_status =
                                     IF new_status = "delivered" /\ q.ord.payment_method = "cod"
                                     THEN "paid" ELSE @])
    /\ UNCHANGED <<stock, cart, orders, payments, refunds, locks, emails, confirms, ghnCalls, releases, refundCalls, active, shipments, vnp>>

\* the copy saved
WebhookSave(r) ==
    LET q == req[r] IN
    /\ q.pc = "webhook_save"
    /\ orders' = [orders EXCEPT ![q.oid] = q.ord]
    /\ Ends(r, q, "updated")
    /\ UNCHANGED <<stock, cart, payments, refunds, locks, emails, confirms, ghnCalls, releases, refundCalls, active, shipments, vnp>>

\* ---- admin order edit: AdminOrderDetailView (RetrieveUpdateAPIView) --------------
\* the values an admin may send for the order field: OrderSerializer leaves status and
\* the money fields writable
EditValues(field) == IF field = "status" THEN OrderStatuses ELSE 0..(MaxQty * UnitPrice)

\* get_object and the serializer's update of the loaded copy
AdminEditLoad(r, o, field, value) ==
    /\ Free(r)
    /\ o \in 1..Len(orders)
    /\ field \in {"status", "subtotal", "shipping_fee", "discount", "total"}
    /\ value \in EditValues(field)
    /\ Goes(r, [IdleReq EXCEPT !.pc = "edit_save", !.handler = "admin_edit", !.oid = o,
                               !.field = field, !.ord = [orders[o] EXCEPT ![field] = value]])
    /\ UNCHANGED <<stock, cart, orders, payments, refunds, locks, emails, confirms, ghnCalls, releases, refundCalls, active, shipments, vnp>>

\* instance.save() of the updated copy
AdminEditSave(r) ==
    LET q == req[r] IN
    /\ q.pc = "edit_save"
    /\ orders' = [orders EXCEPT ![q.oid] = q.ord]
    /\ Ends(r, q, "updated")
    /\ UNCHANGED <<stock, cart, payments, refunds, locks, emails, confirms, ghnCalls, releases, refundCalls, active, shipments, vnp>>

\* ---- admin product edit: AdminProductViewSet.partial_update ------------------------
\* get_object: the Product copy
ProductEditLoad(r, p, is_active) ==
    /\ Free(r)
    /\ p \in Products
    /\ Goes(r, [IdleReq EXCEPT !.pc = "product_save", !.handler = "product_edit", !.product = p,
                               !.pstock = stock[p], !.flag = is_active])
    /\ UNCHANGED <<stock, cart, orders, payments, refunds, locks, emails, confirms, ghnCalls, releases, refundCalls, active, shipments, vnp>>

\* instance.save() of the copy: every column, is_active as sent and stock as loaded
ProductEditSave(r) ==
    LET q == req[r] IN
    /\ q.pc = "product_save"
    /\ locks[q.product] = 0
    /\ active' = [active EXCEPT ![q.product] = q.flag]
    /\ stock' = [stock EXCEPT ![q.product] = q.pstock]
    /\ Ends(r, q, "updated")
    /\ UNCHANGED <<cart, orders, payments, refunds, locks, emails, confirms, ghnCalls, releases, refundCalls, shipments, vnp>>

\* ---- admin shipment creation: GHNCreateShipmentView.post --------------------------
\* get_object_or_404 and the test of the destination fields of the request
ShipLoad(r, o, has_dest) ==
    /\ Free(r)
    /\ o \in 1..Len(orders)
    /\ LET q == [IdleReq EXCEPT !.handler = "ghn_create", !.oid = o, !.ord = orders[o]]
       IN IF ~has_dest THEN Ends(r, q, "missing_fields")
          ELSE Goes(r, [q EXCEPT !.pc = "ship_call"])
    /\ UNCHANGED <<stock, cart, orders, payments, refunds, locks, emails, confirms, ghnCalls, releases, refundCalls, active, shipments, vnp>>

\* GHNService.create_order; on success the Shipment row is created (a second row for
\* the order violates the one-to-one key and the request fails) and the order copy is
\* saved as 'shipping'
ShipCreate(r, ghn_ok) ==
    LET q == req[r] IN
    /\ q.pc = "ship_call"
    /\ ghnCalls' = [ghnCalls EXCEPT ![q.oid] = Bump(@)]
    /\ IF ~ghn_ok
       THEN /\ Ends(r, q, "ghn_error")
            /\ UNCHANGED <<orders, shipments>>
       ELSE IF shipments[q.oid] # "none"
       THEN /\ Ends(r, q, "integrity_error")
            /\ UNCHANGED <<orders, shipments>>
       ELSE /\ shipments' = [shipments EXCEPT ![q.oid] = "shipped"]
            /\ orders' = [orders EXCEPT ![q.oid] = [q.ord EXCEPT !.status = "shipping"]]
            /\ Ends(r, q, "shipped")
    /\ UNCHANGED <<stock, cart, payments, refunds, locks, emails, confirms, releases, refundCalls, active, vnp>>

\* ---- admin shipment cancellation: GHNCancelShipmentView.post ----------------------
\* GHNService.cancel_order; on success the Shipment is saved as cancelled and its
\* order is read
ShipCancelCall(r, o, ghn_ok) ==
    /\ Free(r)
    /\ o \in 1..Len(orders)
    /\ LET q == [IdleReq EXCEPT !.handler = "ghn_cancel", !.oid = o]
       IN IF ~ghn_ok
          THEN /\ Ends(r, q, "ghn_error")
               /\ UNCHANGED shipments
          ELSE IF shipments[o] = "none"
          THEN /\ Ends(r, q, "no_shipment")
               /\ UNCHANGED shipments
          ELSE /\ shipments' = [shipments EXCEPT ![o] = "cancelled"]
               /\ Goes(r, [q EXCEPT !.pc = "shipcancel_save", !.ord = orders[o]])
    /\ UNCHANGED <<stock, cart, orders, payments, refunds, locks, emails, confirms, ghnCalls, releases, refundCalls, active, vnp>>

\* shipment.order saved as 'cancelled'
ShipCancelSave(r) ==
    LET q == req[r] IN
    /\ q.pc = "shipcancel_save"
    /\ orders' = [orders EXCEPT ![q.oid] = [q.ord EXCEPT !.status = "cancelled"]]
    /\ Ends(r, q, "shipment_cancelled")
    /\ UNCHANGED <<stock, cart, payments, refunds, locks, emails, confirms, ghnCalls, releases, refundCalls, active, shipments, vnp>>

\* ---- VNPay signatures: VNPayService.create_payment_url, verify_return ----------
\* the characters of a parameter value: a plain one, the space, and two that
\* quote_plus escapes
Chars == {"a", " ", "+", "&"}

\* the strings of at most MaxLen characters
Values == UNION {[1..n -> Chars] : n \in 0..MaxLen}

\* sorted(params.items()): the keys of the parameter set in sort order (two of the
\* twelve vnp_ keys: the client address and the order description)
SortedKeys == <<"vnp_IpAddr", "vnp_OrderInfo">>

ParamSets == [1..Len(SortedKeys) -> Values]

\* urllib.parse.quote_plus of one character
quote_plus_char(c) ==
    CASE c = " " -> <<"+">>
      [] c = "+" -> <<"%", "2", "B">>
      [] c = "&" -> <<"%", "2", "6">>
      [] OTHER -> <<c>>

\* urllib.parse.quote_plus
RECURSIVE quote_plus(_)
quote_plus(v) == IF v = <<>> THEN <<>> ELSE quote_plus_char(Head(v)) \o quote_plus(Tail(v))

\* '&'.join of the key=value parts
RECURSIVE Joined(_)
Joined(parts) ==
    IF parts = <<>> THEN <<>>
    ELSE IF Len(parts) = 1 THEN Head(parts)
    ELSE Head(parts) \o <<"&">> \o Joined(Tail(parts))

\* the key=value parts of the keys from i on for which keep holds
RECURSIVE PartsFrom(_, _, _)
PartsFrom(params, keep, i) ==
    IF i > Len(SortedKeys) THEN <<>>
    ELSE (IF keep[i] THEN <<(<<SortedKeys[i], "=">> \o quote_plus(params[i]))>> ELSE <<>>)
            \o PartsFrom(params, keep, i + 1)

\* the parameters verify_return keeps: those whose value is not the empty string
VerifyKeeps(params) == [i \in 1..Len(SortedKeys) |-> params[i] # <<>>]

\* create_payment_url: urllib.parse.urlencode(sorted_params), every parameter
SignedQuery(params) == Joined(PartsFrom(params, [i \in 1..Len(SortedKeys) |-> TRUE], 1))

\* verify_return: the query string rebuilt from the returned parameters
VerifiedQuery(params) == Joined(PartsFrom(params, VerifyKeeps(params), 1))

\* settings.VNPAY_HASH_SECRET: the value of the deployment, or the default of
\* settings.py when the deployment supplies none
VNPAY_HASH_SECRET(supplied) == IF supplied THEN "deployment secret" ELSE "VNPAYTESTHASHSECRET"

\* _hmac_sha512, as an ideal keyed hash: equal digests only for equal key and data
hmac_sha512(key, data) == <<key, data>>

\* a signature as received: the digest, and whether one of its characters was changed
Received(digest, changed) == [digest |-> digest, changed |-> changed]

\* the values that differ from v in exactly one character
OneCharChanges(v) == {[v EXCEPT ![i] = c] : i \in 1..Len(v), c \in Chars} \ {v}

\* the parameter sets that differ from params in one character of one value
TamperedParams(params) ==
    UNION {{[params EXCEPT ![i] = w] : w \in OneCharChanges(params[i])} : i \in 1..Len(SortedKeys)}

NoVnp == [pc |-> "idle", supplied |-> FALSE, params |-> [i \in 1..Len(SortedKeys) |-> <<>>],
          signature |-> <<>>, result |-> "none", tamper |-> "none",
          returned |-> [i \in 1..Len(SortedKeys) |-> <<>>], secure_hash |-> Received(<<>>, FALSE),
          success |-> FALSE]

\* create_payment_url signs the parameter set
VNPayCreateUrl(supplied, params) ==
    /\ vnp.pc = "idle"
    /\ params \in ParamSets
    /\ vnp' = [NoVnp EXCEPT !.pc = "signed", !.supplied = supplied, !.params = params,
                            !.signature = hmac_sha512(VNPAY_HASH_SECRET(supplied), SignedQuery(params)),
                            !.result = "success"]
    /\ UNCHANGED <<stock, cart, orders, payments, refunds, locks, req, emails, confirms, ghnCalls, releases, refundCalls, active, shipments, resp>>

\* the signature test of verify_return on returned parameters and signature
SignatureOk(supplied, returned, secure_hash) ==
    secure_hash = Received(hmac_sha512(VNPAY_HASH_SECRET(supplied), VerifiedQuery(returned)), FALSE)

\* verify_return on what comes back: the signed set unchanged, or with one character
\* of a value or of the signature changed
VNPayVerifyReturn(tamper, returned) ==
    /\ vnp.pc = "signed"
    /\ \/ tamper = "none" /\ returned = vnp.params
       \/ tamper = "value" /\ returned \in TamperedParams(vnp.params)
       \/ tamper = "signature" /\ returned = vnp.params
    /\ LET secure_hash == Received(vnp.signature, tamper = "signature")
       IN vnp' = [vnp EXCEPT !.pc = "verified", !.tamper = tamper, !.returned = returned,
                             !.secure_hash = secure_hash,
                             !.success = SignatureOk(vnp.supplied, returned, secure_hash)]
    /\ UNCHANGED <<stock, cart, orders, payments, refunds, locks, req, emails, confirms, ghnCalls, releases, refundCalls, active, shipments, resp>>

\* ---- initial state ----------------------------------------------------------
Init ==
    /\ stock = [p \in Products |-> InitStock]
    /\ cart = [u \in Users |-> NoItems]
    /\ orders = <<>>
    /\ payments = <<>>
    /\ refunds = <<>>
    /\ locks = [p \in Products |-> 0]
    /\ req = [r \in Reqs |-> IdleReq]
    /\ emails = [p \in 1..MaxOrders |-> 0]
    /\ confirms = [o \in 1..MaxOrders |-> 0]
    /\ ghnCalls = [o \in 1..MaxOrders |-> 0]
    /\ releases = [o \in 1..MaxOrders |-> 0]
    /\ refundCalls = 0
    /\ active = [p \in Products |-> TRUE]
    /\ shipments = [o \in 1..MaxOrders |-> "none"]
    /\ vnp = NoVnp
    /\ resp = NoResp

AddItemOf(users, products) ==
    \E u \in users, p \in products, quantity \in Qtys : add_item(u, p, quantity)

\* one product
OneProduct == {CHOOSE p \in Products : TRUE}

AddItem == AddItemOf(Users, OneProduct)

\* shoppers fill their carts while fewer than limit orders exist or are being created
Shopping(users, products, limit) ==
    /\ Len(orders) + Cardinality(InCheckout) < limit
    /\ AddItemOf(users, products)

\* one shopper
OneUser == {CHOOSE u \in Users : TRUE}

\* checkouts with the given payment methods and destination flags, while fewer than
\* limit orders exist or are being created
CheckoutOf(users, methods, dests, limit) ==
    \/ /\ Len(orders) + Cardinality(InCheckout) < limit
       /\ \E r \in Reqs, u \in users, m \in methods, d \in dests : CheckoutBegin(r, u, m, d, 0)
    \/ \E r \in Reqs : CheckoutLock(r)
    \/ \E r \in Reqs, ok \in BOOLEAN : CheckoutGateway(r, ok)

Cancel ==
    \/ \E r \in Reqs, o \in 1..MaxOrders : CancelLoad(r, o)
    \/ \E r \in Reqs : CancelWrite(r)

\* success callbacks of the given handlers, with the given outcomes of the notification
\* the success callbacks of the given handlers; exact: every VNPay callback carries
\* the amount of the payment it names
SettleWith(handlers, mails, exact) ==
    \/ \E r \in Reqs, h \in handlers, p \in 1..MaxOrders, v \in VnpAmounts :
          /\ SettleLoad(r, h, p, v)
          /\ exact => v = ScaledAmount(payments[p].amount)
    \/ \E r \in Reqs : SettleMark(r)
    \/ \E r \in Reqs, ghn_ok \in BOOLEAN, mail_ok \in mails : SettleOrder(r, ghn_ok, mail_ok)
    \/ \E r \in Reqs, mail_ok \in mails : SettleTracking(r, mail_ok)

SettleFrom(handlers, mails) == SettleWith(handlers, mails, TRUE)

SettleOf(handlers) == SettleFrom(handlers, {TRUE})

FailOf(handlers) ==
    \/ \E r \in Reqs, h \in handlers, p \in 1..MaxOrders : FailLoad(r, h, p)
    \/ \E r \in Reqs : FailMark(r)
    \/ \E r \in Reqs : FailCancel(r)

Refund ==
    \/ \E r \in Reqs, p \in 1..MaxOrders, amount \in RefundAmounts : RefundStart(r, p, amount)
    \/ \E r \in Reqs, ok \in BOOLEAN : RefundProvider(r, ok)
    \/ \E r \in Reqs : RefundPayment(r)
    \/ \E r \in Reqs : RefundOrder(r)

\* admin status updates to the given statuses, with the given outcomes of the notification
AdminFrom(statuses, mails) ==
    \/ \E r \in Reqs, o \in 1..MaxOrders, s \in statuses : AdminLoad(r, o, s)
    \/ \E r \in Reqs, ghn_ok \in BOOLEAN, mail_ok \in mails : AdminSave(r, ghn_ok, mail_ok)
    \/ \E r \in Reqs : AdminSaveMore(r)

AdminOf(statuses) == AdminFrom(statuses, {TRUE})

\* an admin sets an order to 'cancelled'
AdminCancel ==
    \/ \E r \in Reqs, o \in 1..MaxOrders : AdminLoad(r, o, "cancelled")
    \/ \E r \in Reqs : AdminSave(r, FALSE, TRUE)

WebhookOf(statuses) ==
    \/ \E r \in Reqs, o \in 1..MaxOrders, s \in statuses : WebhookLoad(r, o, s)
    \/ \E r \in Reqs : WebhookSave(r)

\* concurrent checkouts
NextCheckout == AddItem \/ CheckoutOf(Users, PaymentMethods, BOOLEAN, MaxOrders)

SpecCheckout == Init /\ [][NextCheckout]_vars

\* every path that moves stock: checkout, its rollback, and every way to cancel
NextStock ==
    \/ Shopping(OneUser, OneProduct, MaxOrders)
    \/ CheckoutOf(OneUser, {"cod", "vnpay"}, {FALSE}, MaxOrders)
    \/ Cancel
    \/ FailOf({"vnpay_return_fail"})
    \/ AdminCancel
    \/ WebhookOf({"cancel"})

SpecStock == Init /\ [][NextStock]_vars

\* online checkouts and the gateway callbacks
NextSettle ==
    \/ Shopping(OneUser, OneProduct, SingleOrder)
    \/ CheckoutOf(OneUser, {"vnpay"}, {TRUE}, SingleOrder)
    \/ SettleOf({"vnpay_return", "momo_webhook", "stripe_succeeded"})
    \/ FailOf({"vnpay_return_fail", "momo_return_fail", "stripe_failed"})

SpecSettle == Init /\ [][NextSettle]_vars

\* one online order and the success callbacks of its gateway, through every entry point
NextDeliver ==
    \/ Shopping(OneUser, OneProduct, SingleOrder)
    \/ CheckoutOf(OneUser, {"vnpay"}, {TRUE}, SingleOrder)
    \/ SettleOf({"vnpay_return", "vnpay_verify", "vnpay_ipn"})

SpecDeliver == Init /\ [][NextDeliver]_vars

\* settled payments and their refunds
NextRefund ==
    \/ Shopping(OneUser, OneProduct, MaxOrders)
    \/ CheckoutOf(OneUser, {"vnpay"}, {TRUE}, MaxOrders)
    \/ SettleOf({"vnpay_ipn"})
    \/ Refund

SpecRefund == Init /\ [][NextRefund]_vars

AdminEditOf(fields) ==
    \/ \E r \in Reqs, o \in 1..MaxOrders, f \in fields : \E v \in EditValues(f) : AdminEditLoad(r, o, f, v)
    \/ \E r \in Reqs : AdminEditSave(r)

ProductEditOf(flags) ==
    \/ \E r \in Reqs, p \in Products, b \in flags : ProductEditLoad(r, p, b)
    \/ \E r \in Reqs : ProductEditSave(r)

Shipment ==
    \/ \E r \in Reqs, o \in 1..MaxOrders, d \in BOOLEAN : ShipLoad(r, o, d)
    \/ \E r \in Reqs, ghn_ok \in BOOLEAN : ShipCreate(r, ghn_ok)
    \/ \E r \in Reqs, o \in 1..MaxOrders, ghn_ok \in BOOLEAN : ShipCancelCall(r, o, ghn_ok)
    \/ \E r \in Reqs : ShipCancelSave(r)

\* one order and every source of status events for it
NextStatus ==
    \/ Shopping(OneUser, OneProduct, SingleOrder)
    \/ CheckoutOf(OneUser, {"cod", "vnpay"}, {FALSE}, SingleOrder)
    \/ AdminOf(OrderStatuses)
    \/ WebhookOf({"picking", "transporting", "delivered", "cancel"})
    \/ Shipment

SpecStatus == Init /\ [][NextStatus]_vars

\* carts over several products, products taken off sale and checkouts
NextValidate ==
    \/ Shopping(Users, Products, MaxOrders)
    \/ ProductEditOf({FALSE})
    \/ CheckoutOf(Users, {"vnpay"}, {FALSE}, MaxOrders)

SpecValidate == Init /\ [][NextValidate]_vars

\* one online order: its settlement and admin edits of its total
NextTotals ==
    \/ Shopping(OneUser, OneProduct, SingleOrder)
    \/ CheckoutOf(OneUser, {"vnpay"}, {TRUE}, SingleOrder)
    \/ SettleOf({"vnpay_ipn"})
    \/ AdminEditOf({"total"})

SpecTotals == Init /\ [][NextTotals]_vars

\* one VNPay order and the VNPay callbacks, verified or not
NextVNPay ==
    \/ Shopping(OneUser, OneProduct, SingleOrder)
    \/ CheckoutOf(OneUser, {"vnpay"}, {TRUE}, SingleOrder)
    \/ SettleOf({"vnpay_return"})
    \/ FailOf({"vnpay_return_badsig", "vnpay_ipn_badsig", "vnpay_verify_badsig"})

SpecVNPay == Init /\ [][NextVNPay]_vars

\* the row-by-row lock acquisition of the checkouts and the database's way out of a
\* lock cycle
RowLocks ==
    \/ \E r \in Reqs, p \in Products : CheckoutLockRow(r, p)
    \/ \E r \in Reqs : DeadlockAbort(r)

\* concurrent checkouts of carts over both products
NextLocks ==
    \/ Shopping(OneUser, Products, MaxOrders)
    \/ CheckoutOf(OneUser, {"vnpay"}, {FALSE}, MaxOrders)
    \/ RowLocks

SpecLocks == Init /\ [][NextLocks]_vars

\* the database grants a row lock to a waiting statement once the row is free (lock
\* waits are queued), detects lock cycles, and the gateway request of a checkout
\* returns (it has a timeout)
FairLocks ==
    /\ \A r \in Reqs : SF_vars(CheckoutLock(r))
    /\ \A r \in Reqs : WF_vars(\E ok \in BOOLEAN : CheckoutGateway(r, ok))
    /\ WF_vars(\E r \in Reqs : DeadlockAbort(r))

SpecLocksFair == SpecLocks /\ FairLocks

\* one VNPay order and signed success callbacks that carry any amount
NextAmount ==
    \/ Shopping(OneUser, OneProduct, SingleOrder)
    \/ CheckoutOf(OneUser, {"vnpay"}, {TRUE}, SingleOrder)
    \/ SettleWith(VNPayCallbacks, {TRUE}, FALSE)

SpecAmount == Init /\ [][NextAmount]_vars

\* one order and the carrier's webhook with every status of its vocabulary and one
\* outside it
NextWebhook ==
    \/ Shopping(OneUser, OneProduct, SingleOrder)
    \/ CheckoutOf(OneUser, {"cod", "vnpay"}, {FALSE}, SingleOrder)
    \/ WebhookOf(GHNStatuses)

SpecWebhook == Init /\ [][NextWebhook]_vars

\* one order with a destination, confirmed by an admin or by a settlement, with a
\* carrier and a mail server that may fail
NextNotify ==
    \/ Shopping(OneUser, OneProduct, SingleOrder)
    \/ CheckoutOf(OneUser, {"vnpay"}, {TRUE}, SingleOrder)
    \/ AdminFrom({"confirmed", "shipping"}, BOOLEAN)
    \/ SettleFrom({"vnpay_return", "vnpay_verify", "vnpay_ipn", "momo_return", "momo_webhook"}, BOOLEAN)

SpecNotify == Init /\ [][NextNotify]_vars

\* VNPay parameter sets signed and verified
NextSign ==
    \/ \E supplied \in BOOLEAN, params \in ParamSets : VNPayCreateUrl(supplied, params)
    \/ \E tamper \in {"none", "value", "signature"} :
          \E returned \in ParamSets : VNPayVerifyReturn(tamper, returned)

SpecSign == Init /\ [][NextSign]_vars

\* everything
Next ==
    \/ AddItemOf(Users, Products)
    \/ CheckoutOf(Users, PaymentMethods, BOOLEAN, MaxOrders)
    \/ Cancel
    \/ SettleWith(SuccessHandlers, BOOLEAN, FALSE)
    \/ FailOf(FailureHandlers)
    \/ Refund
    \/ AdminFrom(OrderStatuses, BOOLEAN)
    \/ WebhookOf(GHNStatuses)
    \/ AdminEditOf({"status", "subtotal", "shipping_fee", "discount", "total"})
    \/ ProductEditOf(BOOLEAN)
    \/ Shipment
    \/ NextSign
    \/ RowLocks

Spec == Init /\ [][Next]_vars

\* ---- properties -----------------------------------------------------------------
\* the units of product p in the committed orders
Ordered(p) == SumOver([i \in 1..Len(orders) |-> orders[i].items[p]], 1..Len(orders))

\* the step is the validation of the checkout running in slot r
Validates(r) == req[r].pc = "lock" /\ req'[r].pc # "lock"

\* C1: however checkouts interleave, the quantities of the committed orders of a
\* product never sum to more than its initial stock N; a checkout whose cart asks for
\* more than is left ends with a stock error, creates no order and leaves the stock
\* untouched.
C1_NoOversell ==
    [][/\ \A p \in Products : Ordered(p)' <= InitStock
       /\ \A r \in Reqs : Validates(r) =>
             IF \E p \in Products : req[r].items[p] > stock[p]
             THEN /\ resp'.result = "stock_error"
                  /\ orders' = orders
                  /\ stock' = stock
             ELSE resp'.result # "stock_error"]_vars

\* a checkout has just failed with a stock error because committed orders hold all N units
C1_Witness ==
    /\ resp.handler = "checkout"
    /\ resp.result = "stock_error"
    /\ \E p \in Products : stock[p] = 0 /\ Ordered(p) = InitStock

\* C2: the stock of a product is never negative, for every interleaving of checkouts,
\* customer cancellations, payment-failure cancellations and gateway-failure rollbacks.
C2_StockNonNegative == \A p \in Products : stock[p] >= 0

\* the stock is exhausted while an earlier order was cancelled and released its units
C2_Witness ==
    /\ \E p \in Products : stock[p] = 0
    /\ \E o \in 1..Len(orders) : orders[o].status = "cancelled" /\ releases[o] >= 1
    /\ \E o \in 1..Len(orders) : orders[o].status = "pending"

\* C3: whenever the status of an order becomes 'cancelled', by any path, the same step
\* increments the stock of every product of the order by the quantity of its line.
C3_CancelRestoresStock ==
    [][\A o \in 1..Len(orders) :
          orders[o].status # "cancelled" /\ orders'[o].status = "cancelled"
              => \A p \in Products : stock'[p] = stock[p] + orders[o].items[p]]_vars

\* C4: the stock of an order is released at most once in total, for every interleaving
\* of cancel requests and payment-failure callbacks.
C4_ReleaseOnce == \A o \in 1..MaxOrders : releases[o] <= 1

\* the gateway callbacks
Callbacks == SuccessHandlers \cup FailureHandlers

\* C5: a gateway callback that finds its payment 'completed' is a no-op: none of its
\* steps changes the payment's status or paid_at, the order's status or
\* payment_status, or the stock.
C5_CompletedIsFinal ==
    [][\A r \in Reqs :
          /\ req[r].pc # "idle"
          /\ req[r].handler \in Callbacks
          /\ req[r].pay.status = "completed"
          /\ req'[r] # req[r]
          => /\ payments'[req[r].pid].status = payments[req[r].pid].status
             /\ payments'[req[r].pid].paid_at = payments[req[r].pid].paid_at
             /\ orders'[req[r].oid].status = orders[req[r].oid].status
             /\ orders'[req[r].oid].payment_status = orders[req[r].oid].payment_status
             /\ stock' = stock]_vars

\* the payments of order o that are or have been 'completed' (paid_at is set by
\* mark_as_completed only)
EverCompleted(o) ==
    {p \in 1..Len(payments) :
        payments[p].order = o /\ (payments[p].status = "completed" \/ payments[p].paid_at > 0)}

\* C6: every order has at most one Payment whose status is or has ever been 'completed'.
C6_OneCompletedPayment == \A o \in 1..MaxOrders : Cardinality(EverCompleted(o)) <= 1

\* two orders are settled, and the payment of one of them has since been refunded
C6_Witness ==
    \E p1, p2 \in 1..Len(payments) :
        /\ payments[p1].order # payments[p2].order
        /\ payments[p1].status = "refunded"
        /\ payments[p2].status = "completed"

\* C7: a success callback delivered when its payment is already 'completed' ends at
\* once: it does not start a settlement, sends no payment-success notification, makes no
\* shipment-creation request, changes no stock and leaves every order as it was.
C7_SettleIdempotent ==
    [][/\ \A r \in Reqs : req[r].pc = "idle" /\ req'[r].pc = "mark"
             => payments[req'[r].pid].status # "completed"
       /\ resp'.result = "already"
             => /\ emails' = emails
                /\ ghnCalls' = ghnCalls
                /\ stock' = stock
                /\ orders' = orders
                /\ payments' = payments]_vars

\* a repeated success callback has just found its payment completed, after the first
\* delivery sent its notification and its shipment request
C7_Witness ==
    /\ resp.result = "already"
    /\ resp.handler \in SuccessHandlers
    /\ emails[resp.pid] = 1
    /\ ghnCalls[resp.oid] = 1
    /\ orders[resp.oid].status = "confirmed"
    /\ orders[resp.oid].payment_status = "paid"

\* C8: when one settlement is delivered through several entry points at once, at most
\* one payment-success notification is sent for the payment and at most one
\* shipment-creation request is made for its order.
C8_EffectsOnce ==
    /\ \A p \in 1..MaxOrders : emails[p] <= 1
    /\ \A o \in 1..MaxOrders : ghnCalls[o] <= 1

\* C9: the amounts of the completed refunds of a payment never sum to more than the
\* payment's amount.
C9_RefundCap == \A p \in 1..Len(payments) : TotalRefunded(p) <= payments[p].amount

\* the results with which process_refund rejects a request
Rejections == {"rejected_status", "rejected_amount"}

\* C10: process_refund accepts a request only for a 'completed' payment and an amount
\* of at most the payment's amount minus its completed refunds; a rejected request
\* creates no PaymentRefund row, makes no provider call and changes neither a Payment
\* nor an Order.
C10_RejectedRefund ==
    [][/\ \A r \in Reqs : req[r].pc = "idle" /\ req'[r].pc = "provider"
             => /\ payments[req'[r].pid].status = "completed"
                /\ req'[r].amount <= payments[req'[r].pid].amount - TotalRefunded(req'[r].pid)
       /\ resp'.handler = "refund" /\ resp'.result \in Rejections
             => /\ refunds' = refunds
                /\ refundCalls' = refundCalls
                /\ payments' = payments
                /\ orders' = orders
                /\ (resp'.result = "rejected_status"
                        => payments[resp'.pid].status # "completed")
                /\ (resp'.result = "rejected_amount"
                        => payments[resp'.pid].status = "completed")]_vars

\* a refund request was rejected for its amount, on a completed payment that already
\* has a completed refund
C10_Witness ==
    /\ resp.handler = "refund"
    /\ resp.result = "rejected_amount"
    /\ payments[resp.pid].status = "completed"
    /\ TotalRefunded(resp.pid) > 0

\* C11: when the provider accepts a refund, the request goes on to mark the payment
\* 'refunded' and the order's payment_status 'refunded' exactly when the completed
\* refunds of the payment now sum to its full amount; after a partial refund the
\* request ends and the Payment and the Order stay as they were.
C11_RefundOutcome ==
    [][/\ \A i \in 1..Len(refunds) :
             refunds[i].status = "processing" /\ refunds'[i].status = "completed"
                 => LET p == refunds[i].payment IN
                    IF TotalRefunded(p)' >= payments[p].amount
                    THEN \E r \in Reqs : /\ req[r].pc = "provider"
                                         /\ req[r].rid = i
                                         /\ req'[r].pc = "refund_pay"
                    ELSE /\ resp'.result = "refunded"
                         /\ payments' = payments
                         /\ orders' = orders
       /\ \A r \in Reqs : req[r].pc = "refund_pay" /\ req'[r] # req[r]
             => /\ payments'[req[r].pid].status = "refunded"
                /\ req'[r].pc = "refund_order"
       /\ \A r \in Reqs : req[r].pc = "refund_order" /\ req'[r] # req[r]
             => /\ orders'[req[r].oid].payment_status = "refunded"
                /\ resp'.result = "refunded"]_vars

\* two partial refunds that sum to the payment's amount are completed, and the request
\* of the second has ended with the payment and the order's payment_status 'refunded'
C11_Witness ==
    /\ resp.handler = "refund"
    /\ resp.result = "refunded"
    /\ payments[resp.pid].status = "refunded"
    /\ orders[resp.oid].payment_status = "refunded"
    /\ Len(refunds) = 2
    /\ \A i \in 1..2 : /\ refunds[i].payment = resp.pid
                       /\ refunds[i].status = "completed"
                       /\ refunds[i].amount < payments[resp.pid].amount
    /\ TotalRefunded(resp.pid) = payments[resp.pid].amount

C13_TerminalStates ==
    [][\A o \in 1..Len(orders) :
          orders[o].status \in {"delivered", "cancelled"}
              => orders'[o].status = orders[o].status]_vars

\* C14: an order enters 'cancelled' only from 'pending' or 'confirmed'.
C14_CancelledFrom ==
    [][\A o \in 1..Len(orders) :
          orders[o].status # "cancelled" /\ orders'[o].status = "cancelled"
              => orders[o].status \in {"pending", "confirmed"}]_vars

\* the forward order of the statuses
ForwardOrder == <<"pending", "confirmed", "processing", "shipping", "delivered">>

Position(s) == CHOOSE i \in 1..Len(ForwardOrder) : ForwardOrder[i] = s

\* C15: the status of an order never moves to a status with a smaller position in
\* pending < confirmed < processing < shipping < delivered.
C15_Monotonic ==
    [][\A o \in 1..Len(orders) :
          LET old == orders[o].status
              new == orders'[o].status
          IN  old # "cancelled" /\ new # "cancelled" => Position(new) >= Position(old)]_vars

\* C16: in every state a cash-on-delivery order with status 'delivered' has
\* payment_status 'paid'.
C16_CodDeliveredPaid ==
    \A o \in 1..Len(orders) :
        orders[o].payment_method = "cod" /\ orders[o].status = "delivered"
            => orders[o].payment_status = "paid"

C18_GatewayRollback ==
    [][/\ \A r \in Reqs : req[r].pc = "gateway" /\ req'[r].pc # "gateway" =>
             \/ /\ resp'.result = "created"
                /\ Len(orders') = Len(orders) + 1
                /\ resp'.oid = Len(orders')
                /\ payments'[resp'.pid].order = resp'.oid
             \/ /\ resp'.result = "gateway_error"
                /\ <<orders, payments, stock>>' = <<orders, payments, stock>>
       /\ \A o \in 1..Len(orders') :
             orders'[o].payment_method \notin OfflineMethods
                 => \E p \in 1..Len(payments') : payments'[p].order = o]_vars

\* a checkout has just failed at the gateway while an earlier online order and its
\* reservation exist
C18_Witness ==
    /\ resp.handler = "checkout"
    /\ resp.result = "gateway_error"
    /\ \E o \in 1..Len(orders) : orders[o].payment_method \notin OfflineMethods
    /\ \E p \in Products : stock[p] < InitStock /\ stock[p] = InitStock - Ordered(p)

\* the money fields of an order
Money(o) == <<o.subtotal, o.shipping_fee, o.discount, o.total>>

\* C19: the subtotal, shipping_fee, discount and total of an order stay the values
\* computed at checkout through every later step, and total = subtotal + shipping_fee
\* - discount in every state.
C19_TotalsFrame ==
    [][\A o \in 1..Len(orders) :
          /\ Money(orders'[o]) = Money(orders[o])
          /\ orders'[o].total = orders'[o].subtotal + orders'[o].shipping_fee - orders'[o].discount]_vars

\* the VNPay callbacks whose signature does not verify
BadSignature == {"vnpay_return_badsig", "vnpay_ipn_badsig", "vnpay_verify_badsig"}

\* C20: no step of a VNPay callback whose signature does not verify changes a payment,
\* an order or the stock of a product.
C20_InvalidSignature ==
    [][(resp'.handler \in BadSignature
           \/ \E r \in Reqs : req'[r] # req[r] /\ req'[r].handler \in BadSignature)
          => <<payments, orders, stock>>' = <<payments, orders, stock>>]_vars

\* C21: a parameter set signed by create_payment_url and returned unchanged with its
\* signature passes the signature test of verify_return, empty values and spaces
\* included; with one character of a value or of the signature changed it fails.
C21_SignVerifyRoundTrip ==
    vnp.pc = "verified" => (vnp.success <=> vnp.tamper = "none")

\* C24: with no hash secret supplied by the deployment, VNPay URL creation does not
\* succeed and verification accepts nothing.
C24_MissingSecret ==
    ~vnp.supplied => (vnp.result # "success" /\ ~vnp.success)

\* C22: a checkout that is at its payment-URL request to the gateway holds no
\* product-row lock.
C22_NoCallUnderLock ==
    \A r \in Reqs : req[r].pc = "gateway" => \A p \in Products : locks[p] # r

\* the outcomes of a checkout: completed, or failed with an error after which the
\* same request can be sent again
CheckoutOutcomes == {"created", "empty_cart", "stock_error", "gateway_error", "database_error"}

C25_OnlyAcceptedTransitions ==
    [][\A o \in 1..Len(orders) :
          orders'[o].status # orders[o].status
              => orders'[o].status \in valid_transitions(orders[o].status)]_vars

\* the canonical transition table
Canonical(status) ==
    CASE status = "pending" -> {"confirmed", "cancelled"}
      [] status = "confirmed" -> {"processing", "cancelled"}
      [] status = "processing" -> {"shipping"}
      [] status = "shipping" -> {"delivered"}
      [] OTHER -> {}

\* the admin status update of slot r has just passed the transition test
Accepted(r) == req[r].pc = "idle" /\ req'[r].pc = "admin_save"

\* the last step rejected an admin status update
Rejected == resp'.handler = "admin_status" /\ resp'.result = "invalid_transition"

\* C26: update_order_status accepts a transition exactly when the canonical table has it.
C26_CanonicalTable ==
    [][/\ \A r \in Reqs : Accepted(r) => req'[r].new \in Canonical(orders[req'[r].oid].status)
       /\ Rejected => resp'.new \notin Canonical(orders[resp'.oid].status)]_vars

\* the table of update_order_status, as pairs
TablePairs ==
    {<<"pending", "confirmed">>, <<"pending", "cancelled">>, <<"confirmed", "shipping">>,
     <<"confirmed", "delivered">>, <<"confirmed", "cancelled">>, <<"processing", "shipping">>,
     <<"processing", "delivered">>, <<"shipping", "delivered">>}

\* C27: a transition request that is not in the table of update_order_status is
\* rejected explicitly and has no effect: no order, payment, notification or carrier
\* call changes, and only requests of the table get past the test.
C27_RejectedTransition ==
    [][/\ \A r \in Reqs : Accepted(r) => <<orders[req'[r].oid].status, req'[r].new>> \in TablePairs
       /\ Rejected =>
             /\ <<orders[resp'.oid].status, resp'.new>> \notin TablePairs
             /\ <<orders, payments, stock, emails, confirms, ghnCalls, shipments>>'
                    = <<orders, payments, stock, emails, confirms, ghnCalls, shipments>>
             /\ \A r \in Reqs : req'[r].pc # "idle" => req'[r] = req[r]]_vars

\* an admin has just asked to move a delivered order and was refused
C27_Witness ==
    /\ resp.handler = "admin_status"
    /\ resp.result = "invalid_transition"
    /\ orders[resp.oid].status = "delivered"
    /\ resp.new \in {"pending", "shipping", "cancelled"}

\* C28: whenever an order enters 'confirmed' the confirmation notification is sent
\* and, with a destination, the carrier is asked for a shipment; each of the two
\* happens at most once per order.
C28_ConfirmedEffects ==
    [][\A o \in 1..Len(orders) :
          /\ orders[o].status # "confirmed" /\ orders'[o].status = "confirmed"
                => /\ confirms'[o] > confirms[o]
                   /\ orders'[o].dest => ghnCalls'[o] > ghnCalls[o]
          /\ confirms'[o] <= 1
          /\ ghnCalls'[o] <= 1]_vars

\* C29: a failed carrier call or confirmation notification does not undo the
\* transition to 'confirmed': update_order_status reports success and the order stays
\* 'confirmed', and a settlement keeps the payment 'completed' and the order 'paid'.
C29_FailureKeepsTransition ==
    [][/\ (resp'.handler = "admin_status" /\ resp'.new = "confirmed"
              /\ (resp'.mail = "failed" \/ resp'.ghn = "failed"))
          => /\ resp'.result = "updated"
             /\ orders'[resp'.oid].status = "confirmed"
       /\ (resp'.handler \in SuccessHandlers /\ resp'.ghn = "failed")
          => /\ resp'.result = "settled"
             /\ orders'[resp'.oid].status = "confirmed"
             /\ orders'[resp'.oid].payment_status = "paid"
             /\ payments'[resp'.pid].status = "completed"]_vars

\* a settlement has just confirmed an order whose carrier call failed
C29_Witness ==
    /\ resp.handler \in SuccessHandlers
    /\ resp.ghn = "failed"
    /\ orders[resp.oid].status = "confirmed"
    /\ orders[resp.oid].tracking_code = 0
    /\ ghnCalls[resp.oid] >= 1

\* C30: a payment-success notification that fails does not alter the settlement: the
\* handler answers as on success, the payment stays 'completed' and the order 'paid'.
C30_NotifierFailure ==
    [][(resp'.handler \in SuccessHandlers /\ resp'.mail = "failed")
          => /\ resp'.result = "settled"
             /\ payments' = payments
             /\ payments'[resp'.pid].status = "completed"
             /\ orders'[resp'.oid].payment_status = "paid"]_vars

\* the IPN handler has just settled a payment whose notification could not be sent
C30_Witness ==
    /\ resp.handler = "vnpay_ipn"
    /\ resp.mail = "failed"
    /\ payments[resp.pid].status = "completed"
    /\ emails[resp.pid] = 0

\* C31: a valid success callback for a payment that is already 'completed' is answered
\* with the success outcome of the handler, never with a failure outcome.
C31_AlreadySettled ==
    (resp.handler \in SuccessHandlers /\ resp.result = "already") => resp.answer = "success"

\* C32: a settlement marks the Payment 'completed' with paid_at stamped, sets the
\* order's payment_status to 'paid' and moves the order to 'confirmed' if and only if
\* the order it read was 'pending'; an order read past 'pending' keeps its status.
C32_FirstSettlement ==
    [][\A r \in Reqs :
          /\ (req[r].pc = "mark" /\ req'[r].pc = "order_save")
                => /\ payments'[req[r].pid].status = "completed"
                   /\ payments'[req[r].pid].paid_at > 0
          /\ (req[r].pc = "order_save" /\ req'[r].pc # "order_save")
                => /\ orders'[req[r].oid].payment_status = "paid"
                   /\ orders'[req[r].oid].status =
                          IF req[r].ord.status = "pending" THEN "confirmed" ELSE req[r].ord.status]_vars

\* a settlement has just paid an order that was already shipping
C32_Witness ==
    /\ resp.handler \in SuccessHandlers
    /\ resp.result = "settled"
    /\ payments[resp.pid].status = "completed"
    /\ payments[resp.pid].paid_at > 0
    /\ orders[resp.oid].payment_status = "paid"
    /\ orders[resp.oid].status = "shipping"

\* the handlers through which a gateway reports that a payment failed
ReportedFailures == {"vnpay_return_fail", "momo_return_fail", "momo_webhook_fail", "stripe_failed"}

\* C33: a failure reported through any handler for an open payment marks the Payment
\* 'failed' and cancels an order that is 'pending' or 'confirmed', releasing its stock.
C33_FailureCancels ==
    [][/\ (resp'.handler \in ReportedFailures /\ payments[resp'.pid].status \in {"pending", "processing"})
             => /\ payments'[resp'.pid].status = "failed"
                /\ orders'[resp'.oid].status \notin {"pending", "confirmed"}
       /\ \A o \in 1..Len(orders) :
             (orders[o].status \in {"pending", "confirmed"} /\ resp'.result = "failed_cancelled"
                  /\ resp'.oid = o)
                => /\ orders'[o].status = "cancelled"
                   /\ \A p \in Products : stock'[p] = stock[p] + orders[o].items[p]]_vars

\* the checkout of slot r has just returned its order
Created(r) == req[r].handler = "checkout" /\ req[r].pc # "idle" /\ req'[r].pc = "idle"
              /\ resp'.result = "created"

\* C34: a successful checkout creates the order 'pending' and 'unpaid' with one item
\* per cart line, takes exactly the ordered quantity from the stock of each product
\* and leaves the cart empty (cart {A: 2}, stock 2: the stock of A is 0 afterwards).
C34_CheckoutEffects ==
    [][\A r \in Reqs : Created(r) =>
          /\ Len(orders') = Len(orders) + 1
          /\ resp'.oid = Len(orders')
          /\ \A o \in 1..Len(orders) : orders'[o] = orders[o]
          /\ orders'[resp'.oid].status = "pending"
          /\ orders'[resp'.oid].payment_status = "unpaid"
          /\ orders'[resp'.oid].user = req[r].user
          /\ orders'[resp'.oid].items = req[r].items
          /\ \A p \in Products : stock'[p] = stock[p] - req[r].items[p]
          /\ cart'[req[r].user] = NoItems]_vars

\* the scenario: a cash-on-delivery checkout of two units has taken the stock to 0
C34_Witness ==
    /\ resp.handler = "checkout"
    /\ resp.result = "created"
    /\ orders[resp.oid].payment_method = "cod"
    /\ orders[resp.oid].status = "pending"
    /\ orders[resp.oid].items[1] = InitStock
    /\ stock[1] = 0
    /\ Len(orders) = 1

\* C35: an online checkout whose provider call succeeds commits the order, its Payment
\* in status 'processing' and the reservation and returns the order, for vnpay, momo
\* and stripe; only a failed provider call rolls the checkout back.
C35_ProviderSuccessCommits ==
    [][\A r \in Reqs :
          (req[r].pc = "gateway" /\ req'[r].pc = "idle" /\ resp'.provider = "ok")
             => /\ resp'.result = "created"
                /\ Len(orders') = Len(orders) + 1
                /\ payments'[resp'.pid].status = "processing"]_vars

\* the position of a status in the order the webhook compares by
StatusOrder == <<"pending", "confirmed", "processing", "shipping", "delivered", "cancelled">>

PositionIn(s) == CHOOSE i \in 1..Len(StatusOrder) : StatusOrder[i] = s

\* C36: a carrier webhook with a status outside the vocabulary, or with a known status
\* that does not advance the order and is not 'cancelled', is acknowledged as success
\* and changes nothing; only a known status that advances the order (or 'cancelled')
\* goes on to be saved.
C36_IgnoredWebhook ==
    [][/\ (resp'.handler = "ghn_webhook" /\ resp'.result \in {"unknown_status", "not_updated"})
          => /\ resp'.answer = "success"
             /\ <<orders, payments, stock, shipments>>' = <<orders, payments, stock, shipments>>
             /\ \A r \in Reqs : req'[r].pc # "idle" => req'[r] = req[r]
       /\ \A r \in Reqs :
             (req[r].pc = "idle" /\ req'[r].pc = "webhook_save")
                => /\ req'[r].new \in OrderStatuses
                   /\ \/ PositionIn(req'[r].new) > PositionIn(orders[req'[r].oid].status)
                      \/ req'[r].new = "cancelled"
       /\ (resp'.handler = "ghn_webhook" /\ resp'.result = "not_updated")
          => /\ PositionIn(resp'.new) <= PositionIn(orders[resp'.oid].status)
             /\ resp'.new # "cancelled"]_vars

\* a status outside the vocabulary has just been acknowledged for an order on its way
C36_Witness ==
    /\ resp.handler = "ghn_webhook"
    /\ resp.result = "unknown_status"
    /\ resp.answer = "success"
    /\ orders[resp.oid].status = "shipping"

\* C37: a Payment that is 'failed', 'cancelled' or 'refunded' is never set to
\* 'completed' by a later success callback; no order is 'cancelled' with its stock
\* released and 'paid', and no order's payment_status goes from 'refunded' to 'paid'.
C37_ClosedPaymentStaysClosed ==
    [][/\ \A p \in 1..Len(payments) :
             payments[p].status \in {"failed", "cancelled", "refunded"}
                 => payments'[p].status # "completed"
       /\ \A o \in 1..Len(orders) :
             /\ ~(orders'[o].status = "cancelled" /\ releases'[o] > 0
                    /\ orders'[o].payment_status = "paid")
             /\ ~(orders[o].payment_status = "refunded" /\ orders'[o].payment_status = "paid")]_vars

\* C38: the VNPay amount survives scaling by 100 and back, and a VNPay settlement
\* marks a payment 'completed' only when the verified amount equals the payment's
\* amount, through the return URL, the IPN and the verify API.
C38_AmountChecked ==
    [][/\ \A a \in 1..(MaxQty * UnitPrice) : VerifiedAmount(ScaledAmount(a)) = a
       /\ \A r \in Reqs :
             (req[r].handler \in VNPayCallbacks /\ req[r].pc = "mark" /\ req'[r].pc # "mark")
                => req[r].amount = payments'[req[r].pid].amount]_vars

\* C39: a cart write that returns failure (unknown product, out of stock, quantity
\* above stock) leaves the cart's lines and quantities unchanged, and every cart write
\* keeps the quantity of the line at most the product's stock.
C39_RejectedCartWrite ==
    [][resp'.handler = "add_item" =>
          /\ resp'.result \in {"not_found", "out_of_stock", "over_stock"} => cart' = cart
          /\ \A u \in Users, p \in Products :
                cart'[u][p] # cart[u][p] => cart'[u][p] <= stock[p]]_vars

====
